---------------------------- MODULE Spec2Model ----------------------------
(***************************************************************************)
(* Model of the key-sign KeyboardSignature component                       *)
(* (src/src/components/KeyboardSignature.tsx).                             *)
(*                                                                         *)
(* Strings are sequences of one-character strings (UTF-16 code units).     *)
(* 32-bit words are pairs <<hi, lo>> of 16-bit halves, so that every       *)
(* intermediate value stays inside TLC's integer range while the           *)
(* arithmetic is still exactly the arithmetic modulo 2^32 of the code.     *)
(* Pixel coordinates are integers: every layout x is a multiple of 1/4     *)
(* and KEY_SPACING is a multiple of 4.                                     *)
(***************************************************************************)
EXTENDS Integers, Sequences, FiniteSets, TLC

VARIABLES name, capsOn, useCatmullRom, useDashAlphabet,
          keyboardVisible, timers, cleanupTimer,
          segments, codec, rng, probe

vars == <<name, capsOn, useCatmullRom, useDashAlphabet,
          keyboardVisible, timers, cleanupTimer, segments, codec, rng,
          probe>>

---------------------------------------------------------------------------
(* Characters                                                              *)

UPPER == <<"A","B","C","D","E","F","G","H","I","J","K","L","M",
           "N","O","P","Q","R","S","T","U","V","W","X","Y","Z">>
LOWER == <<"a","b","c","d","e","f","g","h","i","j","k","l","m",
           "n","o","p","q","r","s","t","u","v","w","x","y","z">>
DIGITS == <<"0","1","2","3","4","5","6","7","8","9">>

Range(s) == { s[i] : i \in DOMAIN s }
IndexOf(s, c) == CHOOSE i \in DOMAIN s : s[i] = c
UpperSet == Range(UPPER)
LowerSet == Range(LOWER)
DigitSet == Range(DIGITS)

\* /^[A-Z]$/, /^[a-z]$/ and /[0-9_]/ applied to one character
isUpper(c) == c \in UpperSet
isLower(c) == c \in LowerSet
isNumOrUnd(c) == c \in DigitSet \/ c = "_"
\* /[a-zA-Z]/.test(ch)
isLetter(c) == isUpper(c) \/ isLower(c)

\* String.prototype.toUpperCase / toLowerCase on one code unit of the
\* modelled character set (only the ASCII letters have another case)
toUpperCase(c) == IF isLower(c) THEN UPPER[IndexOf(LOWER, c)] ELSE c
toLowerCase(c) == IF isUpper(c) THEN LOWER[IndexOf(UPPER, c)] ELSE c
StrToLowerCase(s) == [i \in DOMAIN s |-> toLowerCase(s[i])]

\* The other characters the program's own strings and the modelled inputs
\* use, with their code units
PUNCT == ("_" :> 95) @@ ("-" :> 45) @@ ("|" :> 124) @@ (":" :> 58)
         @@ (" " :> 32) @@ ("<" :> 60) @@ (">" :> 62) @@ ("&" :> 38)
         @@ ("'" :> 39) @@ ("\"" :> 34)

\* The code unit of every modelled character: "A" is 65, "a" 97, "0" 48
CodeUnit ==
    [c \in UpperSet |-> 64 + IndexOf(UPPER, c)]
    @@ [c \in LowerSet |-> 96 + IndexOf(LOWER, c)]
    @@ [c \in DigitSet |-> 47 + IndexOf(DIGITS, c)]
    @@ PUNCT

\* s.charCodeAt(i) for the character c = s[i]
charCodeAt(c) == CodeUnit[c]

---------------------------------------------------------------------------
(* 32-bit words as <<hi, lo>>                                              *)

W16 == 65536

RECURSIVE BitXor(_, _)
BitXor(a, b) ==
    IF a = 0 THEN b
    ELSE IF b = 0 THEN a
    ELSE ((a + b) % 2) + 2 * BitXor(a \div 2, b \div 2)

WordXor(x, y) == <<BitXor(x[1], y[1]), BitXor(x[2], y[2])>>

\* x ^ y for x, y in 0..127, tabulated at 128 * x + y + 1
XOR7 ==
    [k \in 1..16384 |-> BitXor((k - 1) \div 128, (k - 1) % 128)] \o <<>>
\* h ^= code, for a code unit below 128 (all characters of the model)
XorCode(h, code) ==
    <<h[1], ((h[2] \div 128) * 128) + XOR7[((h[2] % 128) * 128) + code + 1]>>

\* Math.imul(h, p): the low 32 bits of the product.  The partial products
\* fit because both halves of p (the FNV prime) are below 2^15.
imul(h, p) ==
    <<(((h[1] * p[2]) % W16) + ((h[2] * p[1]) % W16)
       + ((h[2] * p[2]) \div W16)) % W16,
      (h[2] * p[2]) % W16>>

\* x << k and x >>> k on 32 bits, 0 < k < 32
Pow2(k) == IF k = 0 THEN 1 ELSE IF k = 1 THEN 2 ELSE IF k = 5 THEN 32
           ELSE IF k = 13 THEN 8192 ELSE IF k = 3 THEN 8
           ELSE IF k = 11 THEN 2048 ELSE IF k = 16 THEN 65536
           ELSE 2 ^ k
ShiftLeft(x, k) ==
    IF k >= 16 THEN <<(x[2] * Pow2(k - 16)) % W16, 0>>
    ELSE <<((x[1] % Pow2(16 - k)) * Pow2(k)) + (x[2] \div Pow2(16 - k)),
           (x[2] % Pow2(16 - k)) * Pow2(k)>>
ShiftRightU(x, k) ==
    IF k >= 16 THEN <<0, x[1] \div Pow2(k - 16)>>
    ELSE <<x[1] \div Pow2(k),
           ((x[1] % Pow2(k)) * Pow2(16 - k)) + (x[2] \div Pow2(k))>>

IsWord(x) == x[1] \in 0..(W16 - 1) /\ x[2] \in 0..(W16 - 1)

\* 0x811c9dc5 and 0x01000193
FNV_OFFSET == <<33052, 40389>>
FNV_PRIME == <<256, 403>>

\* hash32: the loop body folded over the characters of s from index i; h
\* is a 32-bit word at the head of every iteration
RECURSIVE hashFrom(_, _, _)
hashFrom(h, s, i) ==
    CASE i > Len(s) -> h
      [] i <= Len(s) /\ Len(h) = 2 ->
            hashFrom(imul(XorCode(h, charCodeAt(s[i])), FNV_PRIME), s, i + 1)

hash32(s) == hashFrom(FNV_OFFSET, s, 1)

---------------------------------------------------------------------------
(* Layout: key -> position; x is kept in quarter units (x4 = 4 * x)        *)

Key(x4, y) == [x4 |-> x4, y |-> y]

keyboardLayouts ==
    ("1" :> Key(0, -1)) @@ ("2" :> Key(4, -1)) @@ ("3" :> Key(8, -1))
    @@ ("4" :> Key(12, -1)) @@ ("5" :> Key(16, -1)) @@ ("6" :> Key(20, -1))
    @@ ("7" :> Key(24, -1)) @@ ("8" :> Key(28, -1)) @@ ("9" :> Key(32, -1))
    @@ ("0" :> Key(36, -1)) @@ ("_" :> Key(40, -1))
    @@ ("Q" :> Key(2, 0)) @@ ("W" :> Key(6, 0)) @@ ("E" :> Key(10, 0))
    @@ ("R" :> Key(14, 0)) @@ ("T" :> Key(18, 0)) @@ ("Y" :> Key(22, 0))
    @@ ("U" :> Key(26, 0)) @@ ("I" :> Key(30, 0)) @@ ("O" :> Key(34, 0))
    @@ ("P" :> Key(38, 0))
    @@ ("A" :> Key(3, 1)) @@ ("S" :> Key(7, 1)) @@ ("D" :> Key(11, 1))
    @@ ("F" :> Key(15, 1)) @@ ("G" :> Key(19, 1)) @@ ("H" :> Key(23, 1))
    @@ ("J" :> Key(27, 1)) @@ ("K" :> Key(31, 1)) @@ ("L" :> Key(35, 1))
    @@ ("Z" :> Key(5, 2)) @@ ("X" :> Key(9, 2)) @@ ("C" :> Key(13, 2))
    @@ ("V" :> Key(17, 2)) @@ ("B" :> Key(21, 2)) @@ ("N" :> Key(25, 2))
    @@ ("M" :> Key(29, 2))

\* currentKeyboardLayout is the constant "qwerty"
currentKeyboardLayout == <<"q","w","e","r","t","y">>
layout == keyboardLayouts

KEY_SPACING == 60
KEY_W == 56
KEY_H == 48
PAD_X == 18
PAD_Y == 18

SetMin(S) == CHOOSE m \in S : \A n \in S : m <= n
minX4 == SetMin({ layout[k].x4 : k \in DOMAIN layout })
minY == SetMin({ layout[k].y : k \in DOMAIN layout })
SHIFT_X == (-minX4 * KEY_SPACING) \div 4
SHIFT_Y == -minY * KEY_SPACING

\* null (getKeyCenter's and the codec's "nothing")
Null == [null |-> TRUE]

\* Faulty variants of getKeyCenter: one stores the key looked up, not the
\* character typed, in ch; the other looks every character up as typed
getKeyCenterKeyed(ch) ==
    LET key == IF isLetter(ch) THEN toUpperCase(ch) ELSE ch
    IN  IF key \notin DOMAIN layout THEN Null
        ELSE [x |-> (layout[key].x4 * KEY_SPACING) \div 4
                    + SHIFT_X + PAD_X + KEY_W \div 2,
              y |-> layout[key].y * KEY_SPACING
                    + SHIFT_Y + PAD_Y + KEY_H \div 2,
              ch |-> key]
getKeyCenterAsTyped(ch) ==
    IF ch \notin DOMAIN layout THEN Null
    ELSE [x |-> (layout[ch].x4 * KEY_SPACING) \div 4
                + SHIFT_X + PAD_X + KEY_W \div 2,
          y |-> layout[ch].y * KEY_SPACING
                + SHIFT_Y + PAD_Y + KEY_H \div 2,
          ch |-> ch]

\* getKeyCenter: letters are looked up by their uppercase form, everything
\* else as typed; the point keeps the character as typed in ch
getKeyCenter(ch) ==
    LET key == IF isLetter(ch) THEN toUpperCase(ch) ELSE ch
    IN  IF key \notin DOMAIN layout THEN Null
        ELSE [x |-> (layout[key].x4 * KEY_SPACING) \div 4
                    + SHIFT_X + PAD_X + KEY_W \div 2,
              y |-> layout[key].y * KEY_SPACING
                    + SHIFT_Y + PAD_Y + KEY_H \div 2,
              ch |-> ch]

\* Faulty variant of the point list: a character the layout does not have
\* is given a substitute point instead of being skipped
resolvePointsSubstituted(nm) ==
    [i \in DOMAIN nm |->
        IF getKeyCenter(nm[i]) = Null
        THEN [x |-> 0, y |-> 0, ch |-> nm[i]]
        ELSE getKeyCenter(nm[i])]

\* Faulty variant of resolvePoints: the points in the reverse order
resolvePointsReversed(nm) ==
    SelectSeq([i \in DOMAIN nm |-> getKeyCenter(nm[Len(nm) + 1 - i])],
              LAMBDA p : p # Null)

\* name.split("").map(getKeyCenter).filter(Boolean)
resolvePoints(nm) ==
    SelectSeq([i \in DOMAIN nm |-> getKeyCenter(nm[i])],
              LAMBDA p : p # Null)

---------------------------------------------------------------------------
(* Pair class, dash patterns, generator                                    *)

\* Faulty variant of classifyPair: the two mixed-case classes merged
classifyPairMerged(a, b) ==
    IF isNumOrUnd(a) \/ isNumOrUnd(b) THEN "NUM"
    ELSE IF isUpper(a) /\ isUpper(b) THEN "UU"
    ELSE IF isLower(a) /\ isLower(b) THEN "LL"
    ELSE "UL"

classifyPair(a, b) ==
    IF isNumOrUnd(a) \/ isNumOrUnd(b) THEN "NUM"
    ELSE IF isUpper(a) /\ isUpper(b) THEN "UU"
    ELSE IF isLower(a) /\ isLower(b) THEN "LL"
    ELSE IF isUpper(a) /\ isLower(b) THEN "UL"
    ELSE "LU"

DASH_ALPHABET ==
    [UU |-> << <<>> >>,
     UL |-> << <<8, 6>>, <<12, 4, 2, 4>> >>,
     LU |-> << <<8, 6>>, <<3, 3, 1, 3>> >>,
     LL |-> << <<2, 6>>, <<3, 3, 1, 3>> >>,
     NUM |-> << <<1, 8>>, <<2, 8>> >>]

\* Faulty variant of legacyDash: two letters of the same case, lowercase
\* included, drawn solid
legacyDashSameCaseSolid(a, b) ==
    IF isNumOrUnd(a) \/ isNumOrUnd(b) THEN <<1, 8>>
    ELSE IF isUpper(a) = isUpper(b) THEN <<>>
    ELSE <<8, 6>>

legacyDash(a, b) ==
    IF isNumOrUnd(a) \/ isNumOrUnd(b) THEN <<1, 8>>
    ELSE IF isUpper(a) /\ isUpper(b) THEN <<>>
    ELSE <<8, 6>>

\* Faulty variant of makeRng: one generator for the component's lifetime,
\* seeded once and continued by every later build
makeRngCarried(seedStr) ==
    IF rng.made THEN rng.x
    ELSE LET h == hash32(seedStr)
         IN  IF h = <<0, 0>> THEN <<0, 1>> ELSE h

\* Faulty variant of makeRng: the hash as it is, zero included
makeRngNoGuard(seedStr) == hash32(seedStr)

\* makeRng: the generator's state x right after construction
\* (hash32(seedStr) || 1)
makeRng(seedStr) ==
    LET h == hash32(seedStr)
    IN  IF h = <<0, 0>> THEN <<0, 1>> ELSE h

\* One call of the generator: the new state x.  The value the call returns
\* is x / 0xffffffff.
XorShiftLeft(x, k) == WordXor(x, ShiftLeft(x, k))
XorShiftRight(x, k) == WordXor(x, ShiftRightU(x, k))
rngNext(x) == XorShiftLeft(XorShiftRight(XorShiftLeft(x, 13), 17), 5)
\* The value a call returns, (x >>> 0) / 0xffffffff, as a fraction
rngValue(x) == [num |-> x, den |-> <<65535, 65535>>]

\* Math.floor((x / 0xffffffff) * n): the number of j in 1..n with
\* j * 0xffffffff <= n * x, i.e. n * x + j >= j * 2^32
floorScaled(x, n) ==
    LET nlo == n * x[2]
        nhi == n * x[1] + (nlo \div W16)
    IN  Cardinality({ j \in 1..n :
            nhi + (((nlo % W16) + j) \div W16) >= j * W16 })

\* dashForPair, given the generator's state x before the call: the chosen
\* pattern, the index and the generator's state after its one draw
\* Faulty variant of choiceIndex: the index held down to the last entry
\* instead of wrapped round to the first
choiceIndexClamped(drawn, n) ==
    IF floorScaled(drawn, n) > n - 1 THEN n - 1 ELSE floorScaled(drawn, n)

choiceIndex(drawn, n) == floorScaled(drawn, n) % n
pickChoice(choices, drawn) ==
    [dash |-> choices[choiceIndex(drawn, Len(choices)) + 1], x |-> drawn]
dashForPair(a, b, x) ==
    pickChoice(DASH_ALPHABET[classifyPair(a, b)], rngNext(x))

---------------------------------------------------------------------------
(* Geometry features.  A length is carried as the square of ten times the  *)
(* length, (10 * len)^2, an integer for lengths given to one decimal and   *)
(* for every hypot of integer dx, dy; comparisons of lengths become        *)
(* comparisons of these squares.                                           *)

Abs(v) == IF v < 0 THEN -v ELSE v
Sq10(len) == (10 * len) * (10 * len)
hypot(dx, dy) == 100 * (dx * dx + dy * dy)

\* Faulty variant of direction8: the rounded quotient as it is, in -4..4
direction8Signed(dx, dy) ==
    LET ax == Abs(dx)
        ay == Abs(dy)
        q == IF (ax + ay) * (ax + ay) < 2 * ax * ax THEN 0
             ELSE IF (ax + ay) * (ax + ay) < 2 * ay * ay THEN 2
             ELSE 1
    IN  IF dx = 0 /\ dy = 0 THEN 0
        ELSE IF dx >= 0 THEN (IF dy >= 0 THEN q ELSE -q)
        ELSE IF dy >= 0 THEN 4 - q
        ELSE -(4 - q)

\* direction8: round(atan2(dy, dx) / (pi/4)), plus 8, modulo 8.  With
\* q = round(atan(|dy| / |dx|) / 45deg) in 0..2: q = 0 iff
\* |dy| < tan(22.5deg) |dx| iff (|dx| + |dy|)^2 < 2 dx^2, and q = 2 iff
\* (|dx| + |dy|)^2 < 2 dy^2 (tan(22.5deg) = sqrt(2) - 1 is irrational, so
\* integer dx, dy never sit on a rounding boundary); atan2(0, 0) = 0.
direction8(dx, dy) ==
    LET ax == Abs(dx)
        ay == Abs(dy)
        q == IF (ax + ay) * (ax + ay) < 2 * ax * ax THEN 0
             ELSE IF (ax + ay) * (ax + ay) < 2 * ay * ay THEN 2
             ELSE 1
        rounded == IF dx = 0 /\ dy = 0 THEN 0
                   ELSE IF dx >= 0 THEN (IF dy >= 0 THEN q ELSE -q)
                   ELSE IF dy >= 0 THEN 4 - q
                   ELSE -(4 - q)
    IN  (rounded + 8) % 8

\* Faulty variant of lengthBin: the first bin reaches past one key spacing
lengthBinWide(len) ==
    IF len < Sq10(61) THEN 0
    ELSE IF len < Sq10(80) THEN 1
    ELSE IF len < Sq10(120) THEN 2
    ELSE 3

\* Faulty variant of lengthBin: the thresholds belong to the lower bin
lengthBinInclusive(len) ==
    IF len <= Sq10(40) THEN 0
    ELSE IF len <= Sq10(80) THEN 1
    ELSE IF len <= Sq10(120) THEN 2
    ELSE 3

lengthBin(len) ==
    IF len < Sq10(40) THEN 0
    ELSE IF len < Sq10(80) THEN 1
    ELSE IF len < Sq10(120) THEN 2
    ELSE 3

clamp(v, lo, hi) ==
    LET m == IF hi < v THEN hi ELSE v
    IN  IF lo > m THEN lo ELSE m

\* the class label as a string
classChars(klass) ==
    CASE klass = "UU" -> <<"U", "U">>
      [] klass = "UL" -> <<"U", "L">>
      [] klass = "LU" -> <<"L", "U">>
      [] klass = "LL" -> <<"L", "L">>
      [] klass = "NUM" -> <<"N", "U", "M">>

\* a 32-bit word modulo a small m
WordMod(w, m) == ((w[1] % m) * (W16 % m) + w[2]) % m

\* colorForPair: the hsl(...) string as its three numbers.
\* Math.round((lenClamped / 120) * 12) is round(min(len, 120) / 10): the
\* number of r in 1..12 with 10 r - 5 <= len.
COLOR_BASE ==
    [UU |-> [s |-> 45, l |-> 58], UL |-> [s |-> 60, l |-> 52],
     LU |-> [s |-> 60, l |-> 52], LL |-> [s |-> 55, l |-> 48],
     NUM |-> [s |-> 35, l |-> 64]]
lightnessDelta(pxLen) ==
    Cardinality({ r \in 1..12 :
        (100 * r - 50) * (100 * r - 50) <= pxLen }) - 6
colorOfClass(prev, curr, klass, pxLen) ==
    [hue |-> WordMod(hash32(<<prev, curr, "|">> \o classChars(klass)), 360),
     s |-> clamp(COLOR_BASE[klass].s, 30, 80),
     l |-> clamp(COLOR_BASE[klass].l + lightnessDelta(pxLen), 20, 80)]
colorForPair(prev, curr, pxLen) ==
    colorOfClass(prev, curr, classifyPair(prev, curr), pxLen)

\* catmullRomCubicForSegment, for the alpha its one call site passes (0):
\* Math.pow(d, 0) is 1 for every d, 0 included.  The control points are
\* returned in sixths of a pixel (t1 * 3 = 6), where they are integers.
catmullRomCubicForSegment(p0, p1, p2, p3, alpha) ==
    LET d01 == 1
        d12 == 1
        d23 == 1
        t1 == d01 + d12
        t2 == d12 + d23
        m1x == (p2.x - p1.x) \div d12 - (p1.x - p0.x) \div d01
        m1y == (p2.y - p1.y) \div d12 - (p1.y - p0.y) \div d01
        m2x == (p3.x - p2.x) \div d23 - (p2.x - p1.x) \div d12
        m2y == (p3.y - p2.y) \div d23 - (p2.y - p1.y) \div d12
        t1d == IF t1 = 0 THEN 1 ELSE t1
        t2d == IF t2 = 0 THEN 1 ELSE t2
    IN  [c1x |-> 6 * p1.x + (6 * m1x * d12) \div (3 * t1d),
         c1y |-> 6 * p1.y + (6 * m1y * d12) \div (3 * t1d),
         c2x |-> 6 * p2.x - (6 * m2x * d12) \div (3 * t2d),
         c2y |-> 6 * p2.y - (6 * m2y * d12) \div (3 * t2d)]

\* x || 1
orOne(v) == IF v = 0 THEN 1 ELSE v
\* The square of Math.hypot(dx, dy)
hypotSq(dx, dy) == dx * dx + dy * dy
\* Math.pow(Math.hypot(dx, dy), alpha) for the alphas at which it is an
\* integer: 1 at alpha = 0 (for a zero distance too), dx^2 + dy^2 at
\* alpha = 2
powHypot(dx, dy, alpha) ==
    CASE alpha = 0 -> 1
      [] alpha = 2 -> hypotSq(dx, dy)

\* Faulty variant of catmullRomDenominators: no fallback to 1
catmullRomDenominatorsUnguarded(p0, p1, p2, p3, alpha) ==
    [d01 |-> powHypot(p1.x - p0.x, p1.y - p0.y, alpha),
     d12 |-> powHypot(p2.x - p1.x, p2.y - p1.y, alpha),
     d23 |-> powHypot(p3.x - p2.x, p3.y - p2.y, alpha),
     t1 |-> powHypot(p1.x - p0.x, p1.y - p0.y, alpha)
            + powHypot(p2.x - p1.x, p2.y - p1.y, alpha),
     t2 |-> powHypot(p2.x - p1.x, p2.y - p1.y, alpha)
            + powHypot(p3.x - p2.x, p3.y - p2.y, alpha)]

\* The numbers catmullRomCubicForSegment divides by: d01, d12, d23 and
\* (t1 || 1), (t2 || 1)
catmullRomDenominators(p0, p1, p2, p3, alpha) ==
    [d01 |-> orOne(powHypot(p1.x - p0.x, p1.y - p0.y, alpha)),
     d12 |-> orOne(powHypot(p2.x - p1.x, p2.y - p1.y, alpha)),
     d23 |-> orOne(powHypot(p3.x - p2.x, p3.y - p2.y, alpha)),
     t1 |-> orOne(orOne(powHypot(p1.x - p0.x, p1.y - p0.y, alpha))
                  + orOne(powHypot(p2.x - p1.x, p2.y - p1.y, alpha))),
     t2 |-> orOne(orOne(powHypot(p2.x - p1.x, p2.y - p1.y, alpha))
                  + orOne(powHypot(p3.x - p2.x, p3.y - p2.y, alpha)))]

\* The quadratic curve of the earlier version of the component.  Lengths
\* are carried as their squares.  The control point is
\*   ((a.x + b.x) / 2, (a.y + b.y) / 2) + (nx, ny) * amp * sign
\* with (nx, ny) = (-dy, dx) / len and amp = Math.min(12, len * 0.22); it
\* is kept as the doubled midpoint, the vector (-dy, dx) * sign and the
\* factor amp / len, which is 11/50 when len * 0.22 <= 12 and 12 / len
\* otherwise (kept as its numerator and the square of its denominator).
MathSign(v) == IF v > 0 THEN 1 ELSE IF v < 0 THEN -1 ELSE 0

\* len = Math.hypot(dx, dy) || 1, squared
quadLenSq(dx, dy) == orOne(hypotSq(dx, dy))

\* Faulty variant of quadSign: the sign of the cross product as it is
quadSignRaw(cprod) == MathSign(cprod)

\* sign = cprod === 0 ? 1 : Math.sign(cprod)
quadSign(cprod) == IF cprod = 0 THEN 1 ELSE MathSign(cprod)

quadCross(prev, a, b) ==
    (a.x - prev.x) * (b.y - a.y) - (a.y - prev.y) * (b.x - a.x)

\* amp / len: len * 0.22 <= 12 iff 121 * len^2 <= 360000
quadAmpOverLen(lenSq) ==
    IF 121 * lenSq <= 360000 THEN [num |-> 11, denSq |-> 2500]
    ELSE [num |-> 12, denSq |-> lenSq]

quadControl(prev, a, b) ==
    [lenSq |-> quadLenSq(b.x - a.x, b.y - a.y),
     cprod |-> quadCross(prev, a, b),
     sign |-> quadSign(quadCross(prev, a, b)),
     factor |-> quadAmpOverLen(quadLenSq(b.x - a.x, b.y - a.y)),
     mid2 |-> <<a.x + b.x, a.y + b.y>>,
     off |-> <<(-(b.y - a.y)) * quadSign(quadCross(prev, a, b)),
               (b.x - a.x) * quadSign(quadCross(prev, a, b))>>]

\* The curved branch of the loop: one control point per segment, prev
\* being the point before a, or a itself for the first segment
quadSegments(pts) ==
    [i \in 1..(Len(pts) - 1) |->
        quadControl(IF i - 1 >= 1 THEN pts[i - 1] ELSE pts[i],
                    pts[i], pts[i + 1])]

---------------------------------------------------------------------------
(* Codec                                                                   *)

HEX == <<"0","1","2","3","4","5","6","7","8","9","a","b","c","d","e","f">>
Hex4(n) == <<HEX[(n \div 4096) + 1], HEX[((n \div 256) % 16) + 1],
             HEX[((n \div 16) % 16) + 1], HEX[(n % 16) + 1]>>

RECURSIVE stripZeros(_)
stripZeros(s) ==
    IF Len(s) > 1 /\ s[1] = "0" THEN stripZeros(Tail(s)) ELSE s

\* Number.prototype.toString(16) of an unsigned 32-bit value: lowercase
\* digits, no leading zeros
toString16(h) == stripZeros(Hex4(h[1]) \o Hex4(h[2]))

\* Faulty variant of padStart: no padding
padStartNone(s, n, c) == s

\* String.prototype.padStart(n, c)
padStart(s, n, c) ==
    IF Len(s) >= n THEN s ELSE [i \in 1..(n - Len(s)) |-> c] \o s

\* Faulty variants of buildCodec: one hashes the name as typed, the other
\* takes len from the segment count
buildCodecRawHash(nm, layoutId, dashAbc, segs) ==
    [v |-> "ks1",
     layout |-> layoutId,
     dash |-> IF dashAbc THEN "abc" ELSE "legacy",
     color |-> "bigram-hsl-v1",
     len |-> Len(nm),
     hash |-> padStart(toString16(hash32(layoutId \o <<"|">> \o nm)),
                       8, "0"),
     seg |-> segs]
buildCodecResolvedLen(nm, layoutId, dashAbc, segs) ==
    [v |-> "ks1",
     layout |-> layoutId,
     dash |-> IF dashAbc THEN "abc" ELSE "legacy",
     color |-> "bigram-hsl-v1",
     len |-> Len(segs) + 1,
     hash |-> padStart(toString16(hash32(layoutId \o <<"|">>
                                         \o StrToLowerCase(nm))),
                       8, "0"),
     seg |-> segs]

\* Faulty variant of buildCodec: the dash mode hashed with the name
buildCodecHashDash(nm, layoutId, dashAbc, segs) ==
    [v |-> "ks1",
     layout |-> layoutId,
     dash |-> IF dashAbc THEN "abc" ELSE "legacy",
     color |-> "bigram-hsl-v1",
     len |-> Len(nm),
     hash |-> padStart(toString16(hash32(layoutId \o <<"|">>
                  \o StrToLowerCase(nm)
                  \o (IF dashAbc THEN <<"a">> ELSE <<"l">>))),
               8, "0"),
     seg |-> segs]

\* Faulty variant of buildCodec: the hash taken over the characters of the
\* segments, in lowercase, not over the name
buildCodecHashResolved(nm, layoutId, dashAbc, segs) ==
    [v |-> "ks1",
     layout |-> layoutId,
     dash |-> IF dashAbc THEN "abc" ELSE "legacy",
     color |-> "bigram-hsl-v1",
     len |-> Len(nm),
     hash |-> padStart(toString16(hash32(layoutId \o <<"|">>
                  \o StrToLowerCase(
                         (IF segs = <<>> THEN <<>> ELSE <<segs[1].a>>)
                         \o [i \in DOMAIN segs |-> segs[i].b]))),
               8, "0"),
     seg |-> segs]

buildCodec(nm, layoutId, dashAbc, segs) ==
    LET lower == StrToLowerCase(nm)
        h == padStart(toString16(hash32(layoutId \o <<"|">> \o lower)),
                      8, "0")
    IN  [v |-> "ks1",
         layout |-> layoutId,
         dash |-> IF dashAbc THEN "abc" ELSE "legacy",
         color |-> "bigram-hsl-v1",
         len |-> Len(nm),
         hash |-> h,
         seg |-> segs]

---------------------------------------------------------------------------
(* The segments memo (rebuilt on every render: getKeyCenter, one of its    *)
(* dependencies, is a new function on every render)                        *)

\* Faulty variant of segFeat: the end character stored in lowercase
segFeatLowerB(p1, p2) ==
    [a |-> p1.ch,
     b |-> toLowerCase(p2.ch),
     cls |-> classifyPair(p1.ch, p2.ch),
     dir |-> direction8(p2.x - p1.x, p2.y - p1.y),
     lb |-> lengthBin(hypot(p2.x - p1.x, p2.y - p1.y))]

\* the features of the segment p1 -> p2
segFeat(p1, p2) ==
    [a |-> p1.ch,
     b |-> p2.ch,
     cls |-> classifyPair(p1.ch, p2.ch),
     dir |-> direction8(p2.x - p1.x, p2.y - p1.y),
     lb |-> lengthBin(hypot(p2.x - p1.x, p2.y - p1.y))]

\* the path string d of the segment i of pts
segPath(pts, i, curves) ==
    LET p1 == pts[i]
        p2 == pts[i + 1]
        p0 == IF i - 1 >= 1 THEN pts[i - 1] ELSE p1
        p3 == IF i + 2 <= Len(pts) THEN pts[i + 2] ELSE p2
    IN  IF ~curves
        THEN [cmd |-> "L", from |-> <<p1.x, p1.y>>, to |-> <<p2.x, p2.y>>]
        ELSE LET c == catmullRomCubicForSegment(p0, p1, p2, p3, 0)
             IN  [cmd |-> "C", from |-> <<p1.x, p1.y>>,
                  c1 |-> <<c.c1x, c.c1y>>, c2 |-> <<c.c2x, c.c2y>>,
                  to |-> <<p2.x, p2.y>>]

\* Faulty variant of segDash: no draw for a class with one pattern
segDashSkipSingle(p1, p2, x, dashAbc) ==
    IF ~dashAbc THEN [dash |-> legacyDash(p1.ch, p2.ch), x |-> x]
    ELSE IF Len(DASH_ALPHABET[classifyPair(p1.ch, p2.ch)]) = 1
    THEN [dash |-> DASH_ALPHABET[classifyPair(p1.ch, p2.ch)][1], x |-> x]
    ELSE dashForPair(p1.ch, p2.ch, x)

\* Faulty variant of segDash: a pattern drawn from the generator in legacy
\* mode too
segDashAlwaysDrawn(p1, p2, x, dashAbc) == dashForPair(p1.ch, p2.ch, x)

\* The dash of the segment p1 -> p2 and the generator after it: one draw
\* with the dash alphabet on, none with it off
segDash(p1, p2, x, dashAbc) ==
    IF dashAbc THEN dashForPair(p1.ch, p2.ch, x)
    ELSE [dash |-> legacyDash(p1.ch, p2.ch), x |-> x]

\* segs.push(...) of one iteration: st is the loop's state so far (the
\* segments pushed, and the generator: its state x and the states it went
\* through, one per draw)
pushSegment(st, path, styled, color, feat, dashAbc) ==
    [segs |-> Append(st.segs, [d |-> path, dash |-> styled.dash,
                               color |-> color, feat |-> feat]),
     rng |-> [made |-> TRUE,
              x |-> styled.x,
              draws |-> IF dashAbc THEN Append(st.rng.draws, styled.x)
                        ELSE st.rng.draws]]

\* The loop of the memo from segment i on
RECURSIVE segmentLoop(_, _, _, _, _)
segmentLoop(pts, i, st, dashAbc, curves) ==
    CASE i > Len(pts) - 1 -> st
      [] i <= Len(pts) - 1 /\ Len(st.segs) = i - 1 ->
            segmentLoop(pts, i + 1,
                pushSegment(st,
                    segPath(pts, i, curves),
                    segDash(pts[i], pts[i + 1], st.rng.x, dashAbc),
                    colorForPair(pts[i].ch, pts[i + 1].ch,
                        hypot(pts[i + 1].x - pts[i].x,
                              pts[i + 1].y - pts[i].y)),
                    segFeat(pts[i], pts[i + 1]),
                    dashAbc),
                dashAbc, curves)

NoRng == [made |-> FALSE, x |-> <<0, 0>>, draws |-> <<>>]

segmentsOf(pts, x0, dashAbc, curves) ==
    IF Len(pts) < 2
    THEN [segs |-> <<>>, rng |-> [made |-> TRUE, x |-> x0, draws |-> <<>>]]
    ELSE segmentLoop(pts, 1,
             [segs |-> <<>>,
              rng |-> [made |-> TRUE, x |-> x0, draws |-> <<>>]],
             dashAbc, curves)

\* The body of the segments memo: the segment list, and the generator it
\* made (none for the empty name)
buildSegments(nm, dashAbc, curves) ==
    IF nm = <<>> THEN [segs |-> <<>>, rng |-> NoRng]
    ELSE segmentsOf(resolvePoints(nm),
             makeRng(<<"k","e","y","-","s","i","g","n",":">> \o nm
                     \o <<":">> \o currentKeyboardLayout),
             dashAbc, curves)

\* Faulty variants of the codec memo: one builds a codec whenever the name
\* is non-empty, the other hands the render segments themselves to the
\* codec
buildCodecMemoAnySegs(nm, rsegs, dashAbc) ==
    IF nm = <<>> THEN Null
    ELSE LET feats == [i \in DOMAIN rsegs |-> rsegs[i].feat]
         IN  buildCodec(nm, currentKeyboardLayout, dashAbc, feats)
buildCodecMemoWhole(nm, rsegs, dashAbc) ==
    IF nm = <<>> \/ Len(rsegs) = 0 THEN Null
    ELSE buildCodec(nm, currentKeyboardLayout, dashAbc, rsegs)

\* The body of the codec memo
buildCodecMemo(nm, rsegs, dashAbc) ==
    IF nm = <<>> \/ Len(rsegs) = 0 THEN Null
    ELSE LET feats == [i \in DOMAIN rsegs |-> rsegs[i].feat]
         IN  buildCodec(nm, currentKeyboardLayout, dashAbc, feats)

---------------------------------------------------------------------------
(* The component as a state machine                                        *)

\* Bounds of the model
MaxLen == 3
MaxTimers == 2

\* Characters the text input delivers in the model: a lowercase letter and
\* a character the layout does not have
TypedChars == {"s", "-"}
\* On-screen keys clicked in the model: a letter key, which gives "a" or
\* "A" with the caps state, and a digit key
ClickedKeys == {"A", "1"}
TimerIds == 1..MaxTimers

\* One render: both memos are recomputed from the current state
Rendered(nm, dashAbc, built) ==
    /\ segments' = built.segs
    /\ rng' = built.rng
    /\ codec' = buildCodecMemo(nm, built.segs, dashAbc)
Render(nm, dashAbc, curves) ==
    Rendered(nm, dashAbc, buildSegments(nm, dashAbc, curves))

\* Faulty variant of the flash effect: no cleanup, the timer of the previous
\* run is left pending
FlashEffectNoCleanup(nm) ==
    IF Len(nm) > 0
    THEN /\ TimerIds \ timers # {}
         /\ keyboardVisible' = TRUE
         /\ timers' = timers \cup {SetMin(TimerIds \ timers)}
         /\ cleanupTimer' = SetMin(TimerIds \ timers)
    ELSE /\ keyboardVisible' = FALSE
         /\ timers' = timers
         /\ cleanupTimer' = 0

\* The flash effect, run when name has changed: the cleanup of the previous
\* run of the effect first (clearTimeout of its timer), then the body
FlashEffect(nm) ==
    LET cleared == timers \ {cleanupTimer}
    IN  IF Len(nm) > 0
        THEN /\ TimerIds \ cleared # {}
             /\ keyboardVisible' = TRUE
             /\ timers' = cleared \cup {SetMin(TimerIds \ cleared)}
             /\ cleanupTimer' = SetMin(TimerIds \ cleared)
        ELSE /\ keyboardVisible' = FALSE
             /\ timers' = cleared
             /\ cleanupTimer' = 0

\* No module-level function has been called from outside the component
NoProbe == [fn |-> "none"]

Init ==
    /\ name = <<>>
    /\ capsOn = FALSE
    /\ useCatmullRom = FALSE
    /\ useDashAlphabet = TRUE
    /\ keyboardVisible = FALSE
    /\ timers = {}
    /\ cleanupTimer = 0
    /\ segments = <<>>
    /\ codec = Null
    /\ rng = NoRng
    /\ probe = NoProbe

\* setName(v) with v different from the current name, the effect and the
\* render that follow
SetName(v) ==
    /\ v # name
    /\ name' = v
    /\ FlashEffect(v)
    /\ Render(v, useDashAlphabet, useCatmullRom)
    /\ UNCHANGED <<capsOn, useCatmullRom, useDashAlphabet, probe>>

InsertAt(s, p, c) == SubSeq(s, 1, p) \o <<c>> \o SubSeq(s, p + 1, Len(s))
RemoveAt(s, p) == SubSeq(s, 1, p - 1) \o SubSeq(s, p + 1, Len(s))

\* The values an edit of the text input can produce from nm: one character
\* typed anywhere, one character deleted anywhere, everything deleted
Edits(nm) ==
    (IF Len(nm) < MaxLen
     THEN { InsertAt(nm, p, c) : p \in 0..Len(nm), c \in TypedChars }
     ELSE {})
    \cup { RemoveAt(nm, p) : p \in 1..Len(nm) }
    \cup {<<>>}

\* onChange of the text input
OnChange == \E v \in Edits(name) : SetName(v)

clickCharToAppend(char) ==
    IF isUpper(char) THEN (IF capsOn THEN char ELSE toLowerCase(char))
    ELSE char

\* onClick of the on-screen key char
ClickKey(char) ==
    /\ Len(name) < MaxLen
    /\ SetName(Append(name, clickCharToAppend(char)))

\* The Caps button, and the keydown/keyup listener that mirrors CapsLock
ToggleCaps ==
    /\ capsOn' = ~capsOn
    /\ Render(name, useDashAlphabet, useCatmullRom)
    /\ UNCHANGED <<name, useCatmullRom, useDashAlphabet,
                   keyboardVisible, timers, cleanupTimer, probe>>

syncCaps(state) ==
    /\ capsOn' = state
    /\ IF state = capsOn
       THEN UNCHANGED <<segments, codec, rng>>
       ELSE Render(name, useDashAlphabet, useCatmullRom)
    /\ UNCHANGED <<name, useCatmullRom, useDashAlphabet,
                   keyboardVisible, timers, cleanupTimer, probe>>

\* The Curves and Dash ABC buttons
ToggleCurves ==
    /\ useCatmullRom' = ~useCatmullRom
    /\ Render(name, useDashAlphabet, ~useCatmullRom)
    /\ UNCHANGED <<name, capsOn, useDashAlphabet,
                   keyboardVisible, timers, cleanupTimer, probe>>

ToggleDash ==
    /\ useDashAlphabet' = ~useDashAlphabet
    /\ Render(name, ~useDashAlphabet, useCatmullRom)
    /\ UNCHANGED <<name, capsOn, useCatmullRom,
                   keyboardVisible, timers, cleanupTimer, probe>>

\* Faulty variant of the timer callback: the keyboard is left as it is
TimerFireNoHide(t) ==
    /\ t \in timers
    /\ timers' = timers \ {t}
    /\ UNCHANGED <<name, capsOn, useCatmullRom, useDashAlphabet,
                   keyboardVisible, cleanupTimer, segments, codec, rng,
                   probe>>

\* A pending flash timer fires: setKeyboardVisible(false)
TimerFire(t) ==
    /\ t \in timers
    /\ timers' = timers \ {t}
    /\ keyboardVisible' = FALSE
    /\ Render(name, useDashAlphabet, useCatmullRom)
    /\ UNCHANGED <<name, capsOn, useCatmullRom, useDashAlphabet,
                   cleanupTimer, probe>>

ClickSomeKey == \E char \in ClickedKeys : ClickKey(char)
SyncSomeCaps == \E state \in BOOLEAN : syncCaps(state)
SomeTimerFires == \E t \in TimerIds : TimerFire(t)

Next ==
    \/ OnChange
    \/ ClickSomeKey
    \/ ToggleCaps
    \/ SyncSomeCaps
    \/ ToggleCurves
    \/ ToggleDash
    \/ SomeTimerFires

Spec == Init /\ [][Next]_vars

\* The component with the browser's timers: a timeout that stays pending
\* is eventually run.  TimerRuns is the step SomeTimerFires as it shows on
\* name and timers: a pending timer leaves timers while the name stays (a
\* change of name cancels timers instead)
TimerRuns == \E t \in timers : name' = name /\ timers' = timers \ {t}
SpecLive == Init /\ [][Next]_vars /\ WF_<<name, timers>>(TimerRuns)

\* The pair probe: from the empty name, any key of the layout is clicked,
\* in either caps state, until the first segment exists
ClickAnyKey == \E char \in DOMAIN layout : ClickKey(char)

ClickPairKey == segments = <<>> /\ ClickAnyKey

NextPair ==
    \/ ClickPairKey
    \/ ToggleCaps

SpecPair == Init /\ [][NextPair]_vars

\* Serialisation of the codec.  A JavaScript value that JSON.stringify is
\* given is a string, a number, an array or an object whose members keep
\* the order they were created in; texts are sequences of characters.
Str(s) == [t |-> "str", s |-> s]
Num(n) == [t |-> "num", n |-> n]
Arr(items) == [t |-> "arr", items |-> items]
Obj(members) == [t |-> "obj", members |-> members]
Member(k, v) == [k |-> k, v |-> v]

\* The characters of the string literals of buildCodec and classifyPair
StringChars(str) ==
    CASE str = "ks1" -> <<"k", "s", "1">>
      [] str = "abc" -> <<"a", "b", "c">>
      [] str = "legacy" -> <<"l", "e", "g", "a", "c", "y">>
      [] str = "bigram-hsl-v1" -> 
            <<"b", "i", "g", "r", "a", "m", "-", "h", "s", "l", "-", "v", "1">>
      [] str = "UU" -> <<"U", "U">>
      [] str = "UL" -> <<"U", "L">>
      [] str = "LU" -> <<"L", "U">>
      [] str = "LL" -> <<"L", "L">>
      [] str = "NUM" -> <<"N", "U", "M">>

\* One entry of seg, { a, b, cls, dir, lb }
codecSegObject(f) ==
    Obj(<<Member(<<"a">>, Str(<<f.a>>)),
          Member(<<"b">>, Str(<<f.b>>)),
          Member(<<"c", "l", "s">>, Str(StringChars(f.cls))),
          Member(<<"d", "i", "r">>, Num(f.dir)),
          Member(<<"l", "b">>, Num(f.lb))>>)

\* The object buildCodec returns, { v, layout, dash, color, len, hash, seg }
codecObject(c) ==
    Obj(<<Member(<<"v">>, Str(StringChars(c.v))),
          Member(<<"l", "a", "y", "o", "u", "t">>, Str(c.layout)),
          Member(<<"d", "a", "s", "h">>, Str(StringChars(c.dash))),
          Member(<<"c", "o", "l", "o", "r">>, Str(StringChars(c.color))),
          Member(<<"l", "e", "n">>, Num(c.len)),
          Member(<<"h", "a", "s", "h">>, Str(c.hash)),
          Member(<<"s", "e", "g">>,
                 Arr([i \in DOMAIN c.seg |-> codecSegObject(c.seg[i])]))>>)

\* The parts joined into one text
RECURSIVE Concat(_)
Concat(parts) ==
    IF parts = <<>> THEN <<>>
    ELSE IF Len(parts) = 1 THEN parts[1]
    ELSE Concat(SubSeq(parts, 1, Len(parts) \div 2))
         \o Concat(SubSeq(parts, (Len(parts) \div 2) + 1, Len(parts)))

RECURSIVE Join(_, _)
Join(parts, sep) ==
    IF parts = <<>> THEN <<>>
    ELSE IF Len(parts) = 1 THEN parts[1]
    ELSE parts[1] \o sep \o Join(Tail(parts), sep)

\* JSON.stringify of a string: quotes round it, a backslash before a
\* quote or a backslash, \n for a line feed
QuoteChar(c) ==
    CASE c = "\"" -> <<"\\", "\"">>
      [] c = "\\" -> <<"\\", "\\">>
      [] c = "\n" -> <<"\\", "n">>
      [] OTHER -> <<c>>
JSONquote(s) ==
    <<"\"">> \o Concat([i \in DOMAIN s |-> QuoteChar(s[i])]) \o <<"\"">>

\* JSON.stringify of a natural number
RECURSIVE JSONnumber(_)
JSONnumber(n) ==
    IF n < 10 THEN <<DIGITS[n + 1]>>
    ELSE JSONnumber(n \div 10) \o <<DIGITS[(n % 10) + 1]>>

\* The line break and indentation before an entry at the given depth, none
\* when no gap is asked for
Indent(gap, depth) ==
    IF gap = 0 THEN <<>> ELSE <<"\n">> \o [i \in 1..(gap * depth) |-> " "]

\* JSON.stringify(value, null, gap) at the given depth of nesting
RECURSIVE JSONstringifyAt(_, _, _)
JSONstringifyAt(val, gap, depth) ==
    CASE val.t = "str" -> JSONquote(val.s)
      [] val.t = "num" -> JSONnumber(val.n)
      [] val.t = "arr" ->
            IF val.items = <<>> THEN <<"[", "]">>
            ELSE <<"[">>
                 \o Join([i \in DOMAIN val.items |->
                            Indent(gap, depth + 1)
                            \o JSONstringifyAt(val.items[i], gap, depth + 1)],
                         <<",">>)
                 \o Indent(gap, depth) \o <<"]">>
      [] val.t = "obj" ->
            IF val.members = <<>> THEN <<"{", "}">>
            ELSE <<"{">>
                 \o Join([i \in DOMAIN val.members |->
                            Indent(gap, depth + 1)
                            \o JSONquote(val.members[i].k) \o <<":">>
                            \o (IF gap = 0 THEN <<>> ELSE <<" ">>)
                            \o JSONstringifyAt(val.members[i].v, gap,
                                               depth + 1)],
                         <<",">>)
                 \o Indent(gap, depth) \o <<"}">>
JSONstringify(val, gap) == JSONstringifyAt(val, gap, 0)

\* Faulty variants of escapeXml: one leaves the ampersand as it is, the
\* other leaves the angle brackets as they are
XmlEntityNoAmp(c) ==
    CASE c = "<" -> <<"&", "l", "t", ";">>
      [] c = ">" -> <<"&", "g", "t", ";">>
      [] c = "'" -> <<"&", "a", "p", "o", "s", ";">>
      [] c = "\"" -> <<"&", "q", "u", "o", "t", ";">>
      [] OTHER -> <<c>>
escapeXmlNoAmp(s) == Concat([i \in DOMAIN s |-> XmlEntityNoAmp(s[i])])

\* escapeXml: every character of the class [<>&'"] replaced, in one pass,
\* by the entry the map has for it
XmlEntity(c) ==
    CASE c = "<" -> <<"&", "l", "t", ";">>
      [] c = ">" -> <<"&", "g", "t", ";">>
      [] c = "&" -> <<"&", "a", "m", "p", ";">>
      [] c = "'" -> <<"&", "a", "p", "o", "s", ";">>
      [] c = "\"" -> <<"&", "q", "u", "o", "t", ";">>
      [] OTHER -> <<c>>
escapeXml(s) == Concat([i \in DOMAIN s |-> XmlEntity(s[i])])

\* The text of the file exportCODECtxt offers for download; nothing without
\* a codec
exportCODECtxt(c) ==
    IF c = Null THEN Null ELSE JSONstringify(codecObject(c), 2)

\* The text of the file exportCODECsvg offers for download
SvgHead ==
    <<"<", "s", "v", "g", " ", "x", "m", "l", "n", "s", "=", "\"", "h",
      "t", "t", "p", ":", "/", "/", "w", "w", "w", ".", "w", "3", ".", "o",
      "r", "g", "/", "2", "0", "0", "0", "/", "s", "v", "g", "\"", " ",
      "w", "i", "d", "t", "h", "=", "\"", "0", "\"", " ", "h", "e", "i",
      "g", "h", "t", "=", "\"", "0", "\"", ">", "\n", " ", " ", "<", "m",
      "e", "t", "a", "d", "a", "t", "a", " ", "i", "d", "=", "\"", "k",
      "e", "y", "-", "s", "i", "g", "n", "-", "c", "o", "d", "e", "c",
      "\"", ">">>
SvgTail ==
    <<"<", "/", "m", "e", "t", "a", "d", "a", "t", "a", ">", "\n", "<",
      "/", "s", "v", "g", ">">>
exportCODECsvg(c) ==
    IF c = Null THEN Null
    ELSE SvgHead \o escapeXml(JSONstringify(codecObject(c), 0)) \o SvgTail

\* The function probe: the module-level functions called on their own,
\* with arguments of the caller's choosing; the component stays as it is
component == <<name, capsOn, useCatmullRom, useDashAlphabet,
               keyboardVisible, timers, cleanupTimer, segments, codec, rng>>

\* Pixel differences handed to direction8
MaxDelta == 6
Deltas == (-MaxDelta)..MaxDelta

ProbeDirection8 ==
    /\ probe = NoProbe
    /\ \E dx \in Deltas, dy \in Deltas :
          probe' = [fn |-> "direction8", dx |-> dx, dy |-> dy,
                    out |-> direction8(dx, dy)]
    /\ UNCHANGED component

\* Lengths handed to lengthBin, in tenths of a pixel
MaxTenths == 1300

ProbeLengthBin ==
    /\ probe = NoProbe
    /\ \E tenths \in 0..MaxTenths :
          probe' = [fn |-> "lengthBin", tenths |-> tenths,
                    out |-> lengthBin(tenths * tenths)]
    /\ UNCHANGED component

\* Seed strings handed to makeRng: the seeds the component makes of a
\* short name, of a name whose seed hashes to 0, and of a name whose
\* seed hashes to 0x5e6cfce7, the state before 0xffffffff
seedOf(nm) ==
    <<"k","e","y","-","s","i","g","n",":">> \o nm
        \o <<":">> \o currentKeyboardLayout
ProbeNames ==
    { <<"a", "s">>,
      <<"a","c","e","r","g","d","a","i">>,
      <<"a","f","d","j","c","w","n","z">> }
\* Calls made of one generator
MaxDraws == 3

ProbeMakeRng ==
    /\ probe = NoProbe
    /\ \E nm \in ProbeNames :
          probe' = [fn |-> "makeRng", seed |-> seedOf(nm),
                    x |-> makeRng(seedOf(nm)), draws |-> 0,
                    out |-> Null]
    /\ UNCHANGED component

\* One call of the generator made
ProbeRngCall ==
    /\ probe.fn = "makeRng"
    /\ probe.draws < MaxDraws
    /\ probe' = [probe EXCEPT !.x = rngNext(probe.x),
                              !.draws = probe.draws + 1,
                              !.out = rngValue(rngNext(probe.x))]
    /\ UNCHANGED component

\* dashForPair(a, b, rng) called with a generator in state x: the value it
\* draws, the index it computes and the pattern it returns
ProbeChars == {"a", "Q", "7"}
ProbeStates ==
    { <<0, 1>>, <<24172, 64743>>, <<34816, 16384>>, <<54892, 48359>>,
      <<44249, 31182>>, <<62133, 34089>>, <<65535, 65535>> }

ProbeDashForPair ==
    /\ probe = NoProbe
    /\ \E a \in ProbeChars, b \in ProbeChars, x \in ProbeStates :
          probe' = [fn |-> "dashForPair", a |-> a, b |-> b, x |-> x,
                    drawn |-> rngNext(x),
                    idx |-> choiceIndex(rngNext(x),
                                Len(DASH_ALPHABET[classifyPair(a, b)])),
                    out |-> dashForPair(a, b, x).dash]
    /\ UNCHANGED component

\* escapeXml called with a short string over the five characters it
\* replaces and the characters entities are written with
MaxEscLen == 4
EscChars == {"<", ">", "&", "'", "\"", "l", "t", ";"}
EscStrings == UNION { [1..n -> EscChars] : n \in 0..MaxEscLen }

ProbeEscapeXml ==
    /\ probe = NoProbe
    /\ \E s \in EscStrings :
          probe' = [fn |-> "escapeXml", s |-> s, out |-> escapeXml(s)]
    /\ UNCHANGED component

\* The two codec exports, run with the codec the component has built of a
\* name; both return at once when there is no codec
ExportNames ==
    { <<"s">>, <<"s", "A">>, <<"a", "_", "1", "Q">>,
      <<"<", "s", "&", "\"", "A", "'", ">">> }
codecOf(nm, dashAbc) ==
    buildCodecMemo(nm, buildSegments(nm, dashAbc, FALSE).segs, dashAbc)

ProbeExportCODECtxt ==
    /\ probe = NoProbe
    /\ \E nm \in ExportNames, dashAbc \in BOOLEAN :
          /\ codecOf(nm, dashAbc) # Null
          /\ probe' = [fn |-> "exportCODECtxt", name |-> nm,
                       codec |-> codecOf(nm, dashAbc),
                       out |-> exportCODECtxt(codecOf(nm, dashAbc))]
    /\ UNCHANGED component

ProbeExportCODECsvg ==
    /\ probe = NoProbe
    /\ \E nm \in ExportNames, dashAbc \in BOOLEAN :
          /\ codecOf(nm, dashAbc) # Null
          /\ probe' = [fn |-> "exportCODECsvg", name |-> nm,
                       codec |-> codecOf(nm, dashAbc),
                       out |-> exportCODECsvg(codecOf(nm, dashAbc))]
    /\ UNCHANGED component

\* The curve builders run on the points of a short name over a few keys of
\* three rows, repeated keys included
MaxCurveLen == 3
CurveChars == {"q", "w", "e", "a", "S", "z", "1"}
CurveNames == UNION { [1..n -> CurveChars] : n \in 2..MaxCurveLen }
Alphas == {0, 2}

\* p0, p1, p2, p3 of the segment i, clamped at both ends of the path
curvePoints(pts, i) ==
    [p0 |-> IF i - 1 >= 1 THEN pts[i - 1] ELSE pts[i],
     p1 |-> pts[i],
     p2 |-> pts[i + 1],
     p3 |-> IF i + 2 <= Len(pts) THEN pts[i + 2] ELSE pts[i + 1]]
denominatorsOf(q, alpha) ==
    catmullRomDenominators(q.p0, q.p1, q.p2, q.p3, alpha)

\* The segments built in Catmull-Rom mode, and the denominators of
\* catmullRomCubicForSegment for each of them at a given alpha
ProbeCatmullRom ==
    /\ probe = NoProbe
    /\ \E nm \in CurveNames, alpha \in Alphas :
          probe' = [fn |-> "catmullRom", name |-> nm, alpha |-> alpha,
                    segs |-> segmentsOf(resolvePoints(nm), <<0, 1>>,
                                        FALSE, TRUE).segs,
                    den |-> [i \in 1..(Len(resolvePoints(nm)) - 1) |->
                               denominatorsOf(
                                   curvePoints(resolvePoints(nm), i),
                                   alpha)]]
    /\ UNCHANGED component

\* The segments built in quadratic curve mode
ProbeQuadratic ==
    /\ probe = NoProbe
    /\ \E nm \in CurveNames :
          probe' = [fn |-> "quadratic", name |-> nm,
                    pts |-> resolvePoints(nm),
                    out |-> quadSegments(resolvePoints(nm))]
    /\ UNCHANGED component

\* The caller drops the result
ProbeDone ==
    /\ probe # NoProbe
    /\ probe' = NoProbe
    /\ UNCHANGED component

NextProbe ==
    \/ ProbeDirection8
    \/ ProbeLengthBin
    \/ ProbeMakeRng
    \/ ProbeRngCall
    \/ ProbeDashForPair
    \/ ProbeEscapeXml
    \/ ProbeExportCODECtxt
    \/ ProbeExportCODECsvg
    \/ ProbeCatmullRom
    \/ ProbeQuadratic
    \/ ProbeDone

SpecProbe == Init /\ [][NextProbe]_vars

---------------------------------------------------------------------------
(* Properties.  The characters a name is made of are told apart here by    *)
(* their code units, not by the helpers of the component.                  *)

IsDigitOrUnderscore(c) == charCodeAt(c) \in (48..57) \cup {95}
IsUpperCase(c) == charCodeAt(c) \in 65..90
IsLowerCase(c) == charCodeAt(c) \in 97..122
\* a-z, A-Z, 0-9, _: the characters the layout has a key for
Supported(c) == IsDigitOrUnderscore(c) \/ IsUpperCase(c) \/ IsLowerCase(c)
\* The characters of nm that resolve, as typed
ResolvedChars(nm) == SelectSeq(nm, Supported)
SegmentCount(nm) ==
    IF Len(ResolvedChars(nm)) >= 2 THEN Len(ResolvedChars(nm)) - 1 ELSE 0
FeatsOf(segs) == [i \in DOMAIN segs |-> segs[i].feat]

\* The class the priority list gives the pair (a, b), rule by rule
ClassByPriority(a, b, cls) ==
    /\ cls \in {"NUM", "UU", "LL", "UL", "LU"}
    /\ (cls = "NUM") <=> (IsDigitOrUnderscore(a) \/ IsDigitOrUnderscore(b))
    /\ (cls = "UU") <=> (/\ ~IsDigitOrUnderscore(a) /\ ~IsDigitOrUnderscore(b)
                         /\ IsUpperCase(a) /\ IsUpperCase(b))
    /\ (cls = "LL") <=> (/\ ~IsDigitOrUnderscore(a) /\ ~IsDigitOrUnderscore(b)
                         /\ IsLowerCase(a) /\ IsLowerCase(b))
    /\ (cls = "UL") <=> (IsUpperCase(a) /\ IsLowerCase(b))
    /\ (cls = "LU") <=> (IsLowerCase(a) /\ IsUpperCase(b))

\* C1: for every pair (a, b) of supported characters, the class of the
\* segment a -> b is the one the priority list NUM, UU, LL, UL, LU gives,
\* and when it is UL the class of the reversed pair (b, a) is LU.
C1_ClassifyPriority ==
    \A i \in DOMAIN segments :
        /\ ClassByPriority(segments[i].feat.a, segments[i].feat.b,
                           segments[i].feat.cls)
        /\ segments[i].feat.cls = classifyPair(segments[i].feat.a,
                                               segments[i].feat.b)
        /\ segments[i].feat.cls = "UL"
              => classifyPair(segments[i].feat.b, segments[i].feat.a) = "LU"

C1_Witness ==
    /\ name = <<"Q", "m">>
    /\ Len(segments) = 1
    /\ segments[1].feat.cls = "UL"

\* C2: the number of segments is the number of characters of the name that
\* resolve, less one, when at least two resolve, and 0 otherwise.
C2_SegmentCount == Len(segments) = SegmentCount(name)

C2_Witness ==
    /\ name = <<"a", "-", "s">>
    /\ Len(segments) = 1

\* C3: segment i runs from the i-th to the (i+1)-th resolving character of
\* the name, both as typed, and the feature list (a, b, cls, dir, lb) of a
\* name is that of the name without its unsupported characters: unsupported
\* characters, wherever they stand, change no feature.
C3_AdjacencyOverResolved ==
    /\ Len(segments) = SegmentCount(name)
    /\ \A i \in DOMAIN segments :
          /\ segments[i].feat.a = ResolvedChars(name)[i]
          /\ segments[i].feat.b = ResolvedChars(name)[i + 1]
    /\ ResolvedChars(name) # name
          => FeatsOf(segments)
               = FeatsOf(buildSegments(ResolvedChars(name),
                                       useDashAlphabet, useCatmullRom).segs)

C3_Witness ==
    /\ name = <<"-", "a", "s">>
    /\ Len(segments) = 1
    /\ segments[1].feat.a = "a"
    /\ segments[1].feat.b = "s"

\* C4: there is a codec exactly when the name is non-empty and at least two
\* of its characters resolve; otherwise the codec is null.
C4_CodecIffTwoResolve ==
    (codec # Null) <=> (name # <<>> /\ Len(ResolvedChars(name)) >= 2)

C4_Witness ==
    /\ name = <<"-", "a">>
    /\ codec = Null

\* C5: the codec is the one the other curve mode gives for the same name
\* and dash mode, and each of its segments has the fields a, b, cls, dir
\* and lb and no other.
C5_CodecStylingIndependent ==
    /\ codec = buildCodecMemo(name,
                   buildSegments(name, useDashAlphabet, ~useCatmullRom).segs,
                   useDashAlphabet)
    /\ codec # Null
          => \A i \in DOMAIN codec.seg :
                DOMAIN codec.seg[i] = {"a", "b", "cls", "dir", "lb"}

C5_Witness ==
    /\ codec # Null
    /\ useCatmullRom
    /\ Len(codec.seg) = 2
    /\ segments[1].d.cmd = "C"


\* A build that owes nothing to the component's past: the generator starts
\* from the hash of the seed string of nm
FreshSeed(nm) ==
    LET h == hash32(<<"k","e","y","-","s","i","g","n",":">> \o nm
                    \o <<":">> \o currentKeyboardLayout)
    IN  IF h = <<0, 0>> THEN <<0, 1>> ELSE h
FreshBuild(nm, dashAbc, curves) ==
    IF nm = <<>> THEN [segs |-> <<>>, rng |-> NoRng]
    ELSE segmentsOf(resolvePoints(nm), FreshSeed(nm), dashAbc, curves)
FeatsAndDashes(segs) ==
    [i \in DOMAIN segs |-> [feat |-> segs[i].feat, dash |-> segs[i].dash]]
SameAsBuild(fresh) ==
    /\ FeatsAndDashes(segments) = FeatsAndDashes(fresh.segs)
    /\ codec = buildCodecMemo(name, fresh.segs, useDashAlphabet)
    /\ rng = fresh.rng

\* C6: whatever edits, clicks and toggles came before, the segment list
\* (features and dash patterns) and the codec are those of a fresh build
\* from the current name, dash mode and curve mode, and the generator of
\* the last build is the one a fresh build makes from the seed: no
\* generator state is carried over from an earlier build.
C6_HistoryIndependent ==
    SameAsBuild(FreshBuild(name, useDashAlphabet, useCatmullRom))

C6_Witness ==
    /\ Len(rng.draws) = 2
    /\ capsOn
    /\ useCatmullRom
    /\ timers = {}

\* The centre of the key k of the layout
KeyCentre(k) ==
    [x |-> (layout[k].x4 * KEY_SPACING) \div 4
           + SHIFT_X + PAD_X + KEY_W \div 2,
     y |-> layout[k].y * KEY_SPACING + SHIFT_Y + PAD_Y + KEY_H \div 2]
Pos(p) == IF p = Null THEN Null ELSE [x |-> p.x, y |-> p.y]
OtherCase(c) ==
    IF IsUpperCase(c) THEN LOWER[charCodeAt(c) - 64]
    ELSE IF IsLowerCase(c) THEN UPPER[charCodeAt(c) - 96]
    ELSE c
FlipAt(nm, p) == [nm EXCEPT ![p] = OtherCase(nm[p])]
LetterPositions(nm) ==
    { p \in DOMAIN nm : IsUpperCase(nm[p]) \/ IsLowerCase(nm[p]) }
PairFeats(pts) == [i \in 1..(Len(pts) - 1) |-> segFeat(pts[i], pts[i + 1])]
DirAndLb(feats) == [i \in DOMAIN feats |-> <<feats[i].dir, feats[i].lb>>]

\* C7: both cases of a letter resolve to the centre of the letter's key,
\* a digit or underscore to the centre of its own key, and changing the
\* case of one letter of the name leaves the dir and lb of every segment
\* as they are.
C7_CaseInsensitiveResolution ==
    /\ \A p \in DOMAIN name :
          IF p \in LetterPositions(name)
          THEN /\ Pos(getKeyCenter(name[p]))
                    = Pos(getKeyCenter(OtherCase(name[p])))
               /\ \E k \in {name[p], OtherCase(name[p])} :
                     /\ IsUpperCase(k)
                     /\ Pos(getKeyCenter(name[p])) = KeyCentre(k)
          ELSE IsDigitOrUnderscore(name[p])
                  => Pos(getKeyCenter(name[p])) = KeyCentre(name[p])
    /\ \A p \in LetterPositions(name) :
          DirAndLb(PairFeats(resolvePoints(FlipAt(name, p))))
            = DirAndLb(FeatsOf(segments))

C7_Witness ==
    /\ name = <<"q", "M">>
    /\ Len(segments) = 1
    /\ segments[1].feat.cls = "LU"
    /\ PairFeats(resolvePoints(FlipAt(name, 1)))[1].cls = "UU"
    /\ PairFeats(resolvePoints(FlipAt(name, 1)))[1].dir = segments[1].feat.dir

\* C8: the codec's len is the length of the name as typed, it is at least
\* the number of codec segments plus one, and it is exactly that when every
\* character of the name resolves and only then.
C8_LenIsRawLength ==
    codec # Null =>
        /\ codec.len = Len(name)
        /\ codec.len >= Len(codec.seg) + 1
        /\ (codec.len = Len(codec.seg) + 1)
              <=> (\A i \in DOMAIN name : Supported(name[i]))

C8_Witness ==
    /\ codec # Null
    /\ codec.len = 3
    /\ Len(codec.seg) = 1

\* FNV-1a, 32 bits, on four bytes <<b3, b2, b1, b0>>: the multiplication
\* by the prime 2^24 + 403 byte by byte, carries to the left, what passes
\* bit 31 dropped
FnvMul(b3, b2, b1, x0) ==
    LET p0 == x0 * 403
        p1 == (b1 * 403) + (p0 \div 256)
        p2 == (b2 * 403) + (p1 \div 256)
        p3 == (b3 * 403) + (p2 \div 256) + x0
    IN  <<p3 % 256, p2 % 256, p1 % 256, p0 % 256>>
RECURSIVE Fnv1a(_, _, _)
Fnv1a(b, s, i) ==
    IF i > Len(s) \/ Len(b) # 4 THEN b
    ELSE Fnv1a(FnvMul(b[1], b[2], b[3], BitXor(b[4], charCodeAt(s[i]))),
               s, i + 1)
\* 0x811c9dc5
FnvStart == <<129, 28, 157, 197>>
LowerHexDigits ==
    <<"0","1","2","3","4","5","6","7","8","9","a","b","c","d","e","f">>
TwoHex(n) == <<LowerHexDigits[(n \div 16) + 1], LowerHexDigits[(n % 16) + 1]>>
EightHex(b) == TwoHex(b[1]) \o TwoHex(b[2]) \o TwoHex(b[3]) \o TwoHex(b[4])
Lowercased(nm) ==
    [i \in DOMAIN nm |-> IF IsUpperCase(nm[i]) THEN OtherCase(nm[i])
                         ELSE nm[i]]
HashedString(nm) == currentKeyboardLayout \o <<"|">> \o Lowercased(nm)
WordIs(h, b) ==
    /\ h[1] \in 0..65535
    /\ h[2] \in 0..65535
    /\ h = <<(b[1] * 256) + b[2], (b[3] * 256) + b[4]>>

\* C9: hash32 of layout + "|" + lowercased name is the 32-bit FNV-1a value
\* of that string, a value of 0 .. 2^32 - 1, and the codec's hash field is
\* that value as 8 lowercase hexadecimal digits, zeros leading.
C9_HashIsFnv1aHex8 ==
    codec # Null =>
        /\ WordIs(hash32(HashedString(name)),
                  Fnv1a(FnvStart, HashedString(name), 1))
        /\ Len(codec.hash) = 8
        /\ codec.hash = EightHex(Fnv1a(FnvStart, HashedString(name), 1))

C9_Witness ==
    /\ name = <<"s", "s", "1">>
    /\ codec # Null
    /\ codec.hash = <<"0", "e", "8", "f", "d", "2", "0", "c">>

\* C10: the codec's hash and len stay the same when the case of a letter of
\* the name is changed, although the segments' a, b and cls change.
C10_HashIgnoresCase ==
    codec # Null =>
        \A p \in LetterPositions(name) :
            /\ buildCodec(FlipAt(name, p), currentKeyboardLayout,
                          useDashAlphabet, <<>>).hash = codec.hash
            /\ buildCodec(FlipAt(name, p), currentKeyboardLayout,
                          useDashAlphabet, <<>>).len = codec.len

C10_Witness ==
    /\ name = <<"A", "s">>
    /\ codec # Null
    /\ PairFeats(resolvePoints(FlipAt(name, 1))) # codec.seg
    /\ buildCodec(FlipAt(name, 1), currentKeyboardLayout,
                  useDashAlphabet, <<>>).hash = codec.hash


\* C11: every segment has dir in 0..7 and lb in 0..3, the segment of no
\* length between two characters of one key included.
C11_DirAndLbInRange ==
    \A i \in DOMAIN segments :
        /\ segments[i].feat.dir \in 0..7
        /\ segments[i].feat.lb \in 0..3

C11_Witness ==
    /\ name = <<"g", "G">>
    /\ Len(segments) = 1
    /\ segments[1].feat.dir = 0
    /\ segments[1].feat.lb = 0

\* C12: direction8 gives the compass direction with 0 = east, 2 = north,
\* 4 = west, 6 = south: 0 to a segment that goes right only, 2 to one that
\* goes up the screen only (dx = 0, dy < 0), 4 to one that goes left only
\* and 6 to one that goes down the screen only.
C12_CompassDirections ==
    probe.fn = "direction8" =>
        /\ (probe.dx > 0 /\ probe.dy = 0) => probe.out = 0
        /\ (probe.dx = 0 /\ probe.dy < 0) => probe.out = 2
        /\ (probe.dx < 0 /\ probe.dy = 0) => probe.out = 4
        /\ (probe.dx = 0 /\ probe.dy > 0) => probe.out = 6


\* C13: lengthBin is 0 below 40, 1 from 40 to below 80, 2 from 80 to below
\* 120 and 3 from 120 on; the lengths 39.9, 40, 79.9, 80, 119.9 and 120
\* get 0, 1, 1, 2, 2 and 3; a longer length never gets a lower bin.
C13_LengthBinThresholds ==
    probe.fn = "lengthBin" =>
        /\ (probe.out = 0) <=> (probe.tenths < 400)
        /\ (probe.out = 1) <=> (400 <= probe.tenths /\ probe.tenths < 800)
        /\ (probe.out = 2) <=> (800 <= probe.tenths /\ probe.tenths < 1200)
        /\ (probe.out = 3) <=> (1200 <= probe.tenths)
        /\ probe.tenths = 399 => probe.out = 0
        /\ probe.tenths = 400 => probe.out = 1
        /\ probe.tenths = 799 => probe.out = 1
        /\ probe.tenths = 800 => probe.out = 2
        /\ probe.tenths = 1199 => probe.out = 2
        /\ probe.tenths = 1200 => probe.out = 3
        /\ \A shorter \in 0..probe.tenths :
              lengthBin(shorter * shorter) <= probe.out

C13_Witness ==
    /\ probe.fn = "lengthBin"
    /\ probe.tenths = 1199
    /\ probe.out = 2


\* a < b for 32-bit words
WordLess(a, b) == a[1] < b[1] \/ (a[1] = b[1] /\ a[2] < b[2])

\* C14: every value a generator made by makeRng returns is in [0, 1): not
\* negative and not 1.
C14_ValueInUnitInterval ==
    (probe.fn = "makeRng" /\ probe.draws > 0) =>
        /\ probe.out.num[1] >= 0
        /\ probe.out.num[2] >= 0
        /\ WordLess(probe.out.num, probe.out.den)

WordOfBytes(b) == <<(b[1] * 256) + b[2], (b[3] * 256) + b[4]>>
OneIfZero(w) == IF w = <<0, 0>> THEN <<0, 1>> ELSE w

\* C15: the state of a generator is never 0, neither when it is made (a
\* seed that hashes to 0 gives the state 1) nor after any number of calls.
C15_StateNeverZero ==
    probe.fn = "makeRng" =>
        /\ probe.x # <<0, 0>>
        /\ probe.draws = 0 =>
              probe.x = OneIfZero(WordOfBytes(Fnv1a(FnvStart, probe.seed, 1)))

C15_Witness ==
    /\ probe.fn = "makeRng"
    /\ probe.seed = seedOf(<<"a","c","e","r","g","d","a","i">>)
    /\ hash32(probe.seed) = <<0, 0>>
    /\ probe.draws = 3
    /\ probe.x # <<0, 0>>


\* floor(v * n) mod n for the value v = x / 0xffffffff and n = 1 or 2
IndexOfDraw(x, n) ==
    IF n = 1 THEN 0
    ELSE IF x = <<65535, 65535>> THEN 0
    ELSE IF x[1] >= 32768 THEN 1
    ELSE 0
DrawsInOrder(seed) ==
    \A i \in DOMAIN rng.draws :
        /\ rng.draws[i] = rngNext(IF i = 1 THEN seed ELSE rng.draws[i - 1])
        /\ segments[i].dash
             = DASH_ALPHABET[segments[i].feat.cls][
                   IndexOfDraw(rng.draws[i],
                               Len(DASH_ALPHABET[segments[i].feat.cls])) + 1]

\* C16: with the dash alphabet on, a build of n segments calls the
\* generator n times, the i-th call gives the pattern of segment i (a UU
\* segment, with its one pattern, takes its call too); with the dash
\* alphabet off the build calls the generator not once.
C16_OneDrawPerSegment ==
    rng.made =>
        IF useDashAlphabet
        THEN /\ Len(rng.draws) = Len(segments)
             /\ DrawsInOrder(FreshSeed(name))
             /\ rng.x = (IF rng.draws = <<>> THEN FreshSeed(name)
                         ELSE rng.draws[Len(rng.draws)])
        ELSE /\ rng.draws = <<>>
             /\ rng.x = FreshSeed(name)

C16_Witness ==
    /\ name = <<"A", "A", "s">>
    /\ useDashAlphabet
    /\ Len(rng.draws) = 2
    /\ segments[1].feat.cls = "UU"
    /\ segments[1].dash = <<>>
    /\ segments[2].feat.cls = "UL"

\* C17: for every value the generator returns, 1 included, the index
\* floor(value * choiceCount) mod choiceCount that dashForPair computes is
\* an index of the class's list (0 when the value is exactly 1); the
\* pattern returned is the entry at that index of the list DASH_ALPHABET
\* keeps for the pair's own class, which has two entries for UL, LU, LL and
\* NUM and the single empty (solid) pattern for UU.
OwnList(a, b) ==
    DASH_ALPHABET[CHOOSE cls \in {"NUM", "UU", "LL", "UL", "LU"} :
                      ClassByPriority(a, b, cls)]

C17_IndexAlwaysValid ==
    probe.fn = "dashForPair" =>
        /\ Len(OwnList(probe.a, probe.b)) =
               (IF IsUpperCase(probe.a) /\ IsUpperCase(probe.b) THEN 1 ELSE 2)
        /\ probe.idx \in 0..(Len(OwnList(probe.a, probe.b)) - 1)
        /\ probe.idx =
               IndexOfDraw(probe.drawn, Len(OwnList(probe.a, probe.b)))
        /\ probe.out = OwnList(probe.a, probe.b)[probe.idx + 1]
        /\ (IsUpperCase(probe.a) /\ IsUpperCase(probe.b)) => probe.out = <<>>

C17_Witness ==
    /\ probe.fn = "dashForPair"
    /\ probe.drawn = <<65535, 65535>>
    /\ probe.a = "Q"
    /\ probe.b = "a"
    /\ probe.idx = 0
    /\ probe.out = <<8, 6>>

\* C18: with the dash alphabet off the pattern of every segment is a
\* function of the class of its pair alone: [1,8] for NUM, none (solid) for
\* UU, [8,6] for UL, LU and LL, whatever the name hashes to and wherever
\* the segment stands in the name.
LegacyPattern(a, b) ==
    IF IsDigitOrUnderscore(a) \/ IsDigitOrUnderscore(b) THEN <<1, 8>>
    ELSE IF IsUpperCase(a) /\ IsUpperCase(b) THEN <<>>
    ELSE <<8, 6>>

Solid(dash) == dash = <<>>
Dotted(dash) == dash # <<>> /\ dash[1] <= 2
Dashed(dash) == dash # <<>> /\ dash[1] > 2

ReadmeStyle(a, b, dash) ==
    IF IsDigitOrUnderscore(a) \/ IsDigitOrUnderscore(b) THEN Dotted(dash)
    ELSE IF IsUpperCase(a) = IsUpperCase(b) THEN Solid(dash)
    ELSE Dashed(dash)

C19_ReadmeLineStyles ==
    ~useDashAlphabet =>
        \A i \in DOMAIN segments :
            ReadmeStyle(ResolvedChars(name)[i], ResolvedChars(name)[i + 1],
                        segments[i].dash)

\* C20: both serialisations of the codec round-trip, and escapeXml can be
\* undone.  Parsing the pretty JSON text of exportCODECtxt gives a record
\* equal to the codec, field by field; so does parsing the content of the
\* metadata element of exportCODECsvg after the five entities in it are
\* replaced by their characters.  escapeXml replaces each of < > & ' " by
\* its entity and leaves every other character as it is, its output has no
\* raw < > ' " and no & that does not start one of the five entities, and
\* unescaping the output gives the input back (so escapeXml is injective).
EntityOf ==
    [c \in {"<", ">", "&", "'", "\""} |->
        CASE c = "<" -> <<"&", "l", "t", ";">>
          [] c = ">" -> <<"&", "g", "t", ";">>
          [] c = "&" -> <<"&", "a", "m", "p", ";">>
          [] c = "'" -> <<"&", "a", "p", "o", "s", ";">>
          [] c = "\"" -> <<"&", "q", "u", "o", "t", ";">>]

StartsAt(s, i, pat) ==
    /\ i + Len(pat) - 1 <= Len(s)
    /\ \A k \in DOMAIN pat : s[i + k - 1] = pat[k]
EntityAt(s, i) == { c \in DOMAIN EntityOf : StartsAt(s, i, EntityOf[c]) }

\* The text with every entity replaced by its character.  An entity has
\* its only & at its start, so no two entities overlap: a position holds
\* the start of an entity, the rest of one, or a character that stays
InsideEntity(s, i) ==
    \E j \in 1..(i - 1) :
        \E c \in EntityAt(s, j) : i - j < Len(EntityOf[c])
unescapeXml(s) ==
    Concat([i \in DOMAIN s |->
              IF EntityAt(s, i) # {}
              THEN <<CHOOSE c \in EntityAt(s, i) : TRUE>>
              ELSE IF InsideEntity(s, i) THEN <<>>
              ELSE <<s[i]>>])

\* A JSON parser for strings, natural numbers, arrays and objects; the
\* result of each step is the value read and the position after it
ParseError == [t |-> "error"]
Failed == [ok |-> FALSE, v |-> ParseError, i |-> 0]
Parsed(v, i) == [ok |-> TRUE, v |-> v, i |-> i]

RECURSIVE skipSpace(_, _)
skipSpace(s, i) ==
    IF i <= Len(s) /\ s[i] \in {" ", "\n"} THEN skipSpace(s, i + 1) ELSE i

Unquoted(c) == IF c = "n" THEN "\n" ELSE c

RECURSIVE parseString(_, _, _)
parseString(s, i, acc) ==
    IF i > Len(s) \/ Len(acc) > Len(s) THEN Failed
    ELSE IF s[i] = "\"" THEN Parsed(Str(acc), i + 1)
    ELSE IF s[i] = "\\"
    THEN IF i + 1 > Len(s) \/ s[i + 1] \notin {"\"", "\\", "n"} THEN Failed
         ELSE parseString(s, i + 2, Append(acc, Unquoted(s[i + 1])))
    ELSE parseString(s, i + 1, Append(acc, s[i]))

RECURSIVE parseNumber(_, _, _)
parseNumber(s, i, n) ==
    IF i <= Len(s) /\ s[i] \in DigitSet /\ n >= 0
    THEN parseNumber(s, i + 1, 10 * n + (IndexOf(DIGITS, s[i]) - 1))
    ELSE Parsed(Num(n), i)

RECURSIVE parseAt(_, _)
RECURSIVE parseItems(_, _, _)
RECURSIVE parseMembers(_, _, _)

\* After an item or a member: a comma and the next one, or the closing
\* bracket
afterItem(s, i, acc) ==
    IF i > Len(s) THEN Failed
    ELSE IF s[i] = "," THEN parseItems(s, skipSpace(s, i + 1), acc)
    ELSE IF s[i] = "]" THEN Parsed(Arr(acc), i + 1)
    ELSE Failed
itemRead(s, r, acc) ==
    IF ~r.ok THEN Failed
    ELSE afterItem(s, skipSpace(s, r.i), Append(acc, r.v))
parseItems(s, i, acc) == itemRead(s, parseAt(s, i), acc)

afterMember(s, i, acc) ==
    IF i > Len(s) THEN Failed
    ELSE IF s[i] = "," THEN parseMembers(s, skipSpace(s, i + 1), acc)
    ELSE IF s[i] = "}" THEN Parsed(Obj(acc), i + 1)
    ELSE Failed
memberRead(s, k, r, acc) ==
    IF ~r.ok THEN Failed
    ELSE afterMember(s, skipSpace(s, r.i), Append(acc, Member(k.v.s, r.v)))
colonRead(s, k, i, acc) ==
    IF i > Len(s) \/ s[i] # ":" THEN Failed
    ELSE memberRead(s, k, parseAt(s, skipSpace(s, i + 1)), acc)
keyRead(s, k, acc) ==
    IF ~k.ok THEN Failed ELSE colonRead(s, k, skipSpace(s, k.i), acc)
parseMembers(s, i, acc) ==
    IF i > Len(s) \/ s[i] # "\"" THEN Failed
    ELSE keyRead(s, parseString(s, i + 1, <<>>), acc)

openArray(s, i) ==
    IF i <= Len(s) /\ s[i] = "]" THEN Parsed(Arr(<<>>), i + 1)
    ELSE parseItems(s, i, <<>>)
openObject(s, i) ==
    IF i <= Len(s) /\ s[i] = "}" THEN Parsed(Obj(<<>>), i + 1)
    ELSE parseMembers(s, i, <<>>)
parseAt(s, i) ==
    IF i > Len(s) THEN Failed
    ELSE CASE s[i] = "\"" -> parseString(s, i + 1, <<>>)
           [] s[i] = "[" -> openArray(s, skipSpace(s, i + 1))
           [] s[i] = "{" -> openObject(s, skipSpace(s, i + 1))
           [] s[i] \in DigitSet -> parseNumber(s, i, 0)
           [] OTHER -> Failed

wholeText(s, r) ==
    IF r.ok /\ skipSpace(s, r.i) = Len(s) + 1 THEN r.v ELSE ParseError
JSONparse(s) == wholeText(s, parseAt(s, skipSpace(s, 1)))

\* The parsed value as a codec record: an object of exactly the seven
\* fields of a codec, each of its type, and segments of exactly five
Keys(val) == { val.members[i].k : i \in DOMAIN val.members }
Field(val, key) ==
    val.members[CHOOSE i \in DOMAIN val.members : val.members[i].k = key].v
Literals == {"ks1", "abc", "legacy", "bigram-hsl-v1",
             "UU", "UL", "LU", "LL", "NUM"}
LiteralOf(chars) ==
    IF \E str \in Literals : StringChars(str) = chars
    THEN CHOOSE str \in Literals : StringChars(str) = chars
    ELSE "other"
SegKeys == { <<"a">>, <<"b">>, <<"c", "l", "s">>, <<"d", "i", "r">>,
             <<"l", "b">> }
CodecKeys == { <<"v">>, <<"l", "a", "y", "o", "u", "t">>,
               <<"d", "a", "s", "h">>, <<"c", "o", "l", "o", "r">>,
               <<"l", "e", "n">>, <<"h", "a", "s", "h">>, <<"s", "e", "g">> }
IsSegValue(val) ==
    /\ val.t = "obj"
    /\ Len(val.members) = 5
    /\ Keys(val) = SegKeys
    /\ \A k \in { <<"a">>, <<"b">>, <<"c", "l", "s">> } :
          Field(val, k).t = "str"
    /\ Len(Field(val, <<"a">>).s) = 1
    /\ Len(Field(val, <<"b">>).s) = 1
    /\ Field(val, <<"d", "i", "r">>).t = "num"
    /\ Field(val, <<"l", "b">>).t = "num"
IsCodecValue(val) ==
    /\ val.t = "obj"
    /\ Len(val.members) = 7
    /\ Keys(val) = CodecKeys
    /\ \A k \in CodecKeys \ { <<"l", "e", "n">>, <<"s", "e", "g">> } :
          Field(val, k).t = "str"
    /\ Field(val, <<"l", "e", "n">>).t = "num"
    /\ Field(val, <<"s", "e", "g">>).t = "arr"
    /\ \A i \in DOMAIN Field(val, <<"s", "e", "g">>).items :
          IsSegValue(Field(val, <<"s", "e", "g">>).items[i])
SegOfValue(val) ==
    [a |-> Field(val, <<"a">>).s[1],
     b |-> Field(val, <<"b">>).s[1],
     cls |-> LiteralOf(Field(val, <<"c", "l", "s">>).s),
     dir |-> Field(val, <<"d", "i", "r">>).n,
     lb |-> Field(val, <<"l", "b">>).n]
CodecOfValue(val) ==
    [v |-> LiteralOf(Field(val, <<"v">>).s),
     layout |-> Field(val, <<"l", "a", "y", "o", "u", "t">>).s,
     dash |-> LiteralOf(Field(val, <<"d", "a", "s", "h">>).s),
     color |-> LiteralOf(Field(val, <<"c", "o", "l", "o", "r">>).s),
     len |-> Field(val, <<"l", "e", "n">>).n,
     hash |-> Field(val, <<"h", "a", "s", "h">>).s,
     seg |-> [i \in DOMAIN Field(val, <<"s", "e", "g">>).items |->
                 SegOfValue(Field(val, <<"s", "e", "g">>).items[i])]]
ParsesTo(val, c) == IsCodecValue(val) /\ CodecOfValue(val) = c

\* The content of the one element inside the svg element: the text between
\* the second > of the document and the next <
nextAt(s, i, chars) ==
    IF \E j \in i..Len(s) : s[j] \in chars
    THEN CHOOSE j \in i..Len(s) :
             s[j] \in chars /\ \A k \in i..(j - 1) : s[k] \notin chars
    ELSE Len(s) + 1
contentBetween(s, from, to) == SubSeq(s, from + 1, to - 1)
contentFrom(s, from) == contentBetween(s, from, nextAt(s, from + 1, {"<"}))
MetadataOf(svg) ==
    contentFrom(svg, nextAt(svg, nextAt(svg, 1, {">"}) + 1, {">"}))

C20_SerializationsRoundTrip ==
    /\ probe.fn = "exportCODECtxt" =>
          ParsesTo(JSONparse(probe.out), probe.codec)
    /\ probe.fn = "exportCODECsvg" =>
          ParsesTo(JSONparse(unescapeXml(MetadataOf(probe.out))),
                   probe.codec)
    /\ probe.fn = "escapeXml" =>
          /\ probe.out =
                Concat([i \in DOMAIN probe.s |->
                          IF probe.s[i] \in DOMAIN EntityOf
                          THEN EntityOf[probe.s[i]] ELSE <<probe.s[i]>>])
          /\ \A i \in DOMAIN probe.out :
                /\ probe.out[i] \notin {"<", ">", "'", "\""}
                /\ probe.out[i] = "&" => EntityAt(probe.out, i) # {}
          /\ unescapeXml(probe.out) = probe.s

C20_Witness ==
    /\ probe.fn = "exportCODECsvg"
    /\ probe.name = <<"<", "s", "&", "\"", "A", "'", ">">>
    /\ probe.codec.len = 7
    /\ Len(probe.codec.seg) = 1
    /\ StartsAt(MetadataOf(probe.out), 1,
                <<"{", "&", "q", "u", "o", "t", ";", "v">>)
    /\ ParsesTo(JSONparse(unescapeXml(MetadataOf(probe.out))), probe.codec)

\* C21 as stated: in alphabet dash mode a name and the same name without
\* its unsupported characters give every segment the same dash pattern.
DashesOf(segs) == [i \in DOMAIN segs |-> segs[i].dash]
Stripped(dashAbc) == FreshBuild(ResolvedChars(name), dashAbc, useCatmullRom)

C21_UnsupportedInvisibleToDash ==
    useDashAlphabet => DashesOf(segments) = DashesOf(Stripped(TRUE).segs)

\* C21, amended: unsupported characters in a name leave the features of
\* every segment as they are and, in legacy dash mode, the dash patterns
\* too; in alphabet dash mode the patterns are drawn from the seed of the
\* full name, unsupported characters included, and may differ from those
\* of the name without them.
C21_UnsupportedInvisibleToFeatures ==
    /\ FeatsOf(segments) = FeatsOf(Stripped(useDashAlphabet).segs)
    /\ ~useDashAlphabet =>
          DashesOf(segments) = DashesOf(Stripped(FALSE).segs)
    /\ useDashAlphabet =>
          DashesOf(segments) =
              DashesOf(segmentsOf(resolvePoints(ResolvedChars(name)),
                                  FreshSeed(name), TRUE, useCatmullRom).segs)

C21_Witness ==
    /\ useDashAlphabet
    /\ name # ResolvedChars(name)
    /\ Len(segments) = 1
    /\ segments[1].dash # Stripped(TRUE).segs[1].dash

\* C22: at any moment at most one flash timer is pending, and it is the one
\* started by the latest change of the name (the timer of every earlier
\* change was cancelled, so none of them can fire and end a later flash);
\* the keyboard is shown only while that timer is pending; with an empty
\* name the flash is off and no timer is pending.
C22_OneOwnedTimer ==
    /\ Cardinality(timers) <= 1
    /\ timers \subseteq {cleanupTimer}
    /\ keyboardVisible => (name # <<>> /\ timers = {cleanupTimer})
    /\ name = <<>> => (~keyboardVisible /\ timers = {} /\ cleanupTimer = 0)

C22_Witness ==
    /\ Len(name) = 3
    /\ keyboardVisible
    /\ timers = {cleanupTimer}
    /\ Cardinality(timers) = 1

\* C23: every change of the name to a non-empty value shows the keyboard;
\* a hidden keyboard stays hidden until the next change of the name; and
\* if from some point on the name changes no more, the pending timer
\* eventually fires and the keyboard is hidden from then on.
C23_FlashEndsWhenInputStops ==
    /\ [][(name' # name /\ name' # <<>>) => keyboardVisible']_vars
    /\ [][(~keyboardVisible /\ keyboardVisible') => name' # name]_vars
    /\ (<>[][name' = name]_vars) => (<>[]~keyboardVisible)

C23_Witness ==
    /\ name # <<>>
    /\ ~keyboardVisible
    /\ timers = {}
    /\ cleanupTimer # 0

\* C24: the curve math never divides by zero.  For every sequence of
\* resolved points, repeated keys and the clamped first and last segments
\* included, d01, d12, d23 and the divisors made of t1 and t2 in
\* catmullRomCubicForSegment are nonzero, and so is len in the quadratic
\* builder; and the features of every segment are those of its own pair
\* of characters, whether or not a zero-length segment stands next to it.
PairAlone(a, b) ==
    segmentsOf(resolvePoints(<<a, b>>), <<0, 1>>, FALSE, TRUE).segs[1].feat

C24_NoDivisionByZero ==
    /\ probe.fn = "catmullRom" =>
          /\ Len(probe.segs) = Len(probe.name) - 1
          /\ \A i \in DOMAIN probe.den :
                /\ probe.den[i].d01 # 0
                /\ probe.den[i].d12 # 0
                /\ probe.den[i].d23 # 0
                /\ probe.den[i].t1 # 0
                /\ probe.den[i].t2 # 0
          /\ \A i \in DOMAIN probe.segs :
                probe.segs[i].feat =
                    PairAlone(probe.name[i], probe.name[i + 1])
    /\ probe.fn = "quadratic" =>
          \A i \in DOMAIN probe.out : probe.out[i].lenSq # 0

C24_Witness ==
    /\ probe.fn = "catmullRom"
    /\ probe.alpha = 2
    /\ probe.name = <<"q", "q", "a">>
    /\ probe.den[1] = [d01 |-> 1, d12 |-> 1, d23 |-> 3825, t1 |-> 2,
                       t2 |-> 3826]
    /\ probe.segs[1].feat.lb = 0
    /\ probe.segs[2].feat = PairAlone("q", "a")

\* C25: in quadratic curve mode the control point of the segment a -> b is
\* the midpoint of a and b moved along the perpendicular (-dy, dx) of the
\* segment by min(12, 0.22 * length) times a sign; the sign is that of the
\* cross product of (previous point -> a) with (a -> b), and +1 for the
\* first segment and whenever the three points are collinear; it is never
\* 0, so the control point of a segment of nonzero length is off the chord.
CrossOf(prev, a, b) ==
    (a.x - prev.x) * (b.y - a.y) - (a.y - prev.y) * (b.x - a.x)
LengthSq(a, b) == (b.x - a.x) * (b.x - a.x) + (b.y - a.y) * (b.y - a.y)

\* q is the control point of a -> b as the claim has it, prev being the
\* point before a (a itself for the first segment)
ControlAsClaimed(q, prev, a, b) ==
    /\ q.sign \in {1, -1}
    /\ CrossOf(prev, a, b) > 0 => q.sign = 1
    /\ CrossOf(prev, a, b) < 0 => q.sign = -1
    /\ CrossOf(prev, a, b) = 0 => q.sign = 1
    /\ q.mid2 = <<a.x + b.x, a.y + b.y>>
    /\ q.off = <<(-(b.y - a.y)) * q.sign, (b.x - a.x) * q.sign>>
    \* the factor is min(12, 0.22 * length) / length
    /\ LengthSq(a, b) > 0 =>
          /\ q.factor.num > 0
          /\ q.factor.denSq > 0
          /\ IF 121 * LengthSq(a, b) <= 360000
             THEN 2500 * q.factor.num * q.factor.num = 121 * q.factor.denSq
             ELSE q.factor.num * q.factor.num * LengthSq(a, b)
                     = 144 * q.factor.denSq
          /\ q.off # <<0, 0>>
    /\ LengthSq(a, b) = 0 => q.off = <<0, 0>>

C25_QuadraticControlPoint ==
    probe.fn = "quadratic" =>
        /\ Len(probe.out) = Len(probe.pts) - 1
        /\ \A i \in DOMAIN probe.out :
              ControlAsClaimed(probe.out[i],
                               probe.pts[IF i = 1 THEN 1 ELSE i - 1],
                               probe.pts[i], probe.pts[i + 1])
        /\ probe.out[1].sign = 1

C25_Witness ==
    /\ probe.fn = "quadratic"
    /\ probe.name = <<"a", "S", "q">>
    /\ probe.out[1].sign = 1
    /\ probe.out[2].cprod = -3600
    /\ probe.out[2].sign = -1
    /\ probe.out[2].factor = [num |-> 12, denSq |-> 9225]

\* C26: in every codec record consecutive segments chain: the b of each
\* segment and the a of the next are the same character in the same case;
\* the cls of each segment is the class of its own a and b; and every a
\* and b is a letter, a digit or the underscore.
C26_CodecSegmentsChain ==
    codec # Null =>
        /\ \A i \in 1..(Len(codec.seg) - 1) :
              codec.seg[i].b = codec.seg[i + 1].a
        /\ \A i \in DOMAIN codec.seg :
              /\ ClassByPriority(codec.seg[i].a, codec.seg[i].b,
                                 codec.seg[i].cls)
              /\ Supported(codec.seg[i].a)
              /\ Supported(codec.seg[i].b)

C26_Witness ==
    /\ codec # Null
    /\ name = <<"s", "A", "1">>
    /\ Len(codec.seg) = 2
    /\ codec.seg[1].b = "A"
    /\ codec.seg[2].a = "A"
    /\ codec.seg[1].cls = "LU"
    /\ codec.seg[2].cls = "NUM"

\* C27: a step that appends one character to the name, typed or clicked,
\* leaves the features of the segments there were as they are and adds at
\* most one segment at the end: exactly one when the appended character
\* resolves and some earlier character resolves, none otherwise.
Appends(c) == name' = Append(name, c)
AddedBy(c) ==
    IF Supported(c) /\ Len(ResolvedChars(name)) >= 1 THEN 1 ELSE 0

C27_AppendKeepsEarlierFeatures ==
    [][\A c \in TypedChars \cup {"a", "A", "1"} :
          Appends(c) =>
              /\ Len(segments') = Len(segments) + AddedBy(c)
              /\ SubSeq(FeatsOf(segments'), 1, Len(segments))
                    = FeatsOf(segments)]_vars

C27_Witness ==
    /\ name = <<"s", "s", "a">>
    /\ Len(segments) = 2
    /\ segments[1].feat.lb = 0
    /\ segments[2].feat.b = "a"

\* C28: on the qwerty layout at 60 units of key spacing any two distinct
\* keys are at least 40 units apart, so a segment has lb = 0 exactly when
\* its two characters are of the same key (in any combination of cases),
\* and every such segment has dir = 0.
KeyOfChar(c) == IF IsLowerCase(c) THEN UPPER[charCodeAt(c) - 96] ELSE c
KeyDistanceSq(k1, k2) ==
    (15 * (layout[k1].x4 - layout[k2].x4))
        * (15 * (layout[k1].x4 - layout[k2].x4))
    + (60 * (layout[k1].y - layout[k2].y))
        * (60 * (layout[k1].y - layout[k2].y))

C28_ZeroBinIffSameKey ==
    /\ \A p \in DOMAIN name, k \in DOMAIN layout :
          k # KeyOfChar(name[p]) =>
              KeyDistanceSq(KeyOfChar(name[p]), k) >= 40 * 40
    /\ \A i \in DOMAIN segments :
          /\ (segments[i].feat.lb = 0) <=>
                (KeyOfChar(segments[i].feat.a)
                    = KeyOfChar(segments[i].feat.b))
          /\ (KeyOfChar(segments[i].feat.a) = KeyOfChar(segments[i].feat.b))
                => segments[i].feat.dir = 0

C28_Witness ==
    /\ name = <<"Q", "q">>
    /\ Len(segments) = 1
    /\ segments[1].feat.lb = 0
    /\ segments[1].feat.dir = 0

\* Names made from the current one by moving one unsupported character to
\* another place, and the codec the pipeline builds of such a name in the
\* current modes
Moved(nm) ==
    { InsertAt(RemoveAt(nm, p), q, nm[p]) :
        p \in { r \in DOMAIN nm : ~Supported(nm[r]) },
        q \in 0..(Len(nm) - 1) } \ {nm}
CodecFor(nm) ==
    buildCodecMemo(nm, FreshBuild(nm, useDashAlphabet, useCatmullRom).segs,
                   useDashAlphabet)
Matching(c1, c2) ==
    /\ c1 # Null
    /\ c2 # Null
    /\ c1.layout = c2.layout
    /\ c1.dash = c2.dash
    /\ c1.len = c2.len
    /\ c1.seg = c2.seg

DashField(dashAbc) == IF dashAbc THEN "abc" ELSE "legacy"
Unstyled(segs) ==
    [i \in DOMAIN segs |->
        [d |-> segs[i].d, color |-> segs[i].color, feat |-> segs[i].feat]]
ToggledBack ==
    buildSegments(name', useDashAlphabet, useCatmullRom').segs

C30_DashToggleOnlyStyling ==
    [][(useDashAlphabet' # useDashAlphabet) =>
          /\ name' = name
          /\ Unstyled(segments') = Unstyled(segments)
          /\ (codec = Null) <=> (codec' = Null)
          /\ codec # Null =>
                /\ codec.dash = DashField(useDashAlphabet)
                /\ codec'.dash = DashField(useDashAlphabet')
                /\ codec'.dash # codec.dash
                /\ [codec' EXCEPT !.dash = codec.dash] = codec
          /\ ToggledBack = segments
          /\ buildCodecMemo(name', ToggledBack, useDashAlphabet)
                = codec]_vars

C30_Witness ==
    /\ ~useDashAlphabet
    /\ name = <<"s", "A", "s">>
    /\ codec # Null
    /\ codec.dash = "legacy"
    /\ segments[1].dash = <<8, 6>>
    /\ segments[2].dash = <<8, 6>>

=============================================================================
